---- MODULE Spec2Model ----
(***************************************************************************)
(* Model of hfmodels.ExtractQuantsFromSiblings (src/hfmodels.go): the      *)
(* extraction of quantization labels from the file listing of a model      *)
(* repository.  A filename is a sequence of one-character strings; the     *)
(* regular expressions of the pattern table are matched character by       *)
(* character with Go's leftmost-first semantics.  Around it: several calls *)
(* of the extraction running at once (ConcSpec), Client.GetAvailableQuants *)
(* with GetModelDetails (FetchSpec) and api.Client.ListModels of           *)
(* src/internal/api/client.go (ListSpec).                                  *)
(***************************************************************************)
EXTENDS Integers, Sequences, FiniteSets, TLC

\* ------------------------------------------------------------------------
\* Characters and the functions of package strings
\* ------------------------------------------------------------------------
UpperLetters == <<"A","B","C","D","E","F","G","H","I","J","K","L","M",
                  "N","O","P","Q","R","S","T","U","V","W","X","Y","Z">>

LowerLetters == <<"a","b","c","d","e","f","g","h","i","j","k","l","m",
                  "n","o","p","q","r","s","t","u","v","w","x","y","z">>

Digits == {"0","1","2","3","4","5","6","7","8","9"}

Range(f) == {f[x] : x \in DOMAIN f}

UpperSet == Range(UpperLetters)
LowerSet == Range(LowerLetters)

\* the letter of the other case, by its position in the alphabet
UpperOf == [c \in LowerSet |-> UpperLetters[CHOOSE n \in 1..26 : LowerLetters[n] = c]]
LowerOf == [c \in UpperSet |-> LowerLetters[CHOOSE n \in 1..26 : UpperLetters[n] = c]]

ToUpperChar(c) == IF c \in LowerSet THEN UpperOf[c] ELSE c

ToLowerChar(c) == IF c \in UpperSet THEN LowerOf[c] ELSE c

\* strings.ToUpper / strings.ToLower
ToUpper(s) == [n \in DOMAIN s |-> ToUpperChar(s[n])]

ToLower(s) == [n \in DOMAIN s |-> ToLowerChar(s[n])]

\* strings.HasSuffix / strings.HasPrefix
HasSuffix(s, suffix) ==
    /\ Len(s) >= Len(suffix)
    /\ SubSeq(s, Len(s) - Len(suffix) + 1, Len(s)) = suffix

HasPrefix(s, prefix) ==
    /\ Len(s) >= Len(prefix)
    /\ SubSeq(s, 1, Len(prefix)) = prefix

\* ------------------------------------------------------------------------
\* Regular expressions.  A pattern is a sequence of alternatives in order
\* of preference; an alternative is a sequence of atoms; an atom matches
\* one character of the class cls (plus = FALSE) or a greedy run of one or
\* more of them (plus = TRUE); cap marks the atoms of capture group 1.
\* All patterns of the source carry (?i), so a character is folded to upper
\* case before it is compared with a class.
\* ------------------------------------------------------------------------
Lit(c)      == [cls |-> {c}, plus |-> FALSE, cap |-> FALSE]
CapLit(c)   == [cls |-> {c}, plus |-> FALSE, cap |-> TRUE]
One(cls)    == [cls |-> cls, plus |-> FALSE, cap |-> FALSE]
CapMany(cls) == [cls |-> cls, plus |-> TRUE, cap |-> TRUE]
Many(cls)   == [cls |-> cls, plus |-> TRUE, cap |-> FALSE]

NoMatch == [ok |-> FALSE, end |-> 0, cap |-> <<>>]

Max(S) == CHOOSE n \in S : \A m \in S : m <= n
Min(S) == CHOOSE n \in S : \A m \in S : n <= m

\* the element of a one-element set; {e : x \in {v}} under The is e with x
\* bound to the value of v
The(S) == CHOOSE x \in S : TRUE

InClass(s, p, cls) == p <= Len(s) /\ ToUpperChar(s[p]) \in cls

\* length of the longest run of characters of cls starting at position p
RECURSIVE RunLen(_, _, _)
RunLen(s, p, cls) ==
    IF InClass(s, p, cls) THEN The({1 + RunLen(s, q, cls) : q \in {p + 1}}) ELSE 0

\* match atoms k.. of an alternative against s from position p on, cap being
\* the text captured so far; Greedy tries a run of n characters for atom k,
\* then gives characters back one at a time until the rest matches
RECURSIVE MatchHere(_, _, _, _, _)
RECURSIVE Greedy(_, _, _, _, _, _)
MatchHere(atoms, k, s, p, cap) ==
    IF k > Len(atoms) THEN [ok |-> TRUE, end |-> p - 1, cap |-> cap]
    ELSE IF ~InClass(s, p, atoms[k].cls) THEN NoMatch
    ELSE IF ~atoms[k].plus
    THEN The({MatchHere(atoms, k + 1, s, q, c) :
                q \in {p + 1},
                c \in {IF atoms[k].cap THEN Append(cap, s[p]) ELSE cap}})
    ELSE The({Greedy(atoms, k, s, p, cap, n) : n \in {RunLen(s, p, atoms[k].cls)}})

Greedy(atoms, k, s, p, cap, n) ==
    IF n < 1 THEN NoMatch
    ELSE The({IF r.ok THEN r ELSE Greedy(atoms, k, s, p, cap, m) :
                r \in {The({MatchHere(atoms, k + 1, s, q, c) :
                              q \in {p + n},
                              c \in {IF atoms[k].cap THEN cap \o SubSeq(s, p, p + n - 1)
                                     ELSE cap}})},
                m \in {n - 1}})

\* the match of a pattern that starts at position p: the first alternative
\* from a on that matches there
RECURSIVE FirstAlternative(_, _, _, _)
FirstAlternative(pattern, a, s, p) ==
    IF a > Len(pattern) THEN NoMatch
    ELSE The({IF r.ok THEN r ELSE FirstAlternative(pattern, b, s, p) :
                r \in {MatchHere(pattern[a], 1, s, p, <<>>)},
                b \in {a + 1}})

MatchAt(pattern, s, p) == FirstAlternative(pattern, 1, s, p)

\* the leftmost match that starts at position p or later
RECURSIVE FindFrom(_, _, _)
FindFrom(pattern, s, p) ==
    IF p > Len(s) THEN <<>>
    ELSE The({IF m.ok THEN <<SubSeq(s, p, m.end), m.cap>> ELSE FindFrom(pattern, s, q) :
                m \in {MatchAt(pattern, s, p)},
                q \in {p + 1}})

\* regexp.(*Regexp).FindStringSubmatch: the leftmost match, as
\* <<whole match, capture 1>>, or the empty sequence (nil) without a match
FindStringSubmatch(pattern, s) == FindFrom(pattern, s, 1)

\* ------------------------------------------------------------------------
\* The pattern table of ExtractQuantsFromSiblings
\* ------------------------------------------------------------------------
WordChars == UpperSet \cup Digits \cup {"_"}

LitSeq(cs) == [n \in DOMAIN cs |-> Lit(cs[n])]
CapSeq(cs) == [n \in DOMAIN cs |-> CapLit(cs[n])]

\* a pattern table in which nothing has to stand before the token
Separator_Absent == <<>>

\* [._-]
Separator == <<One({".", "_", "-"})>>

\* \.gguf
DotGguf == LitSeq(<<".", "G", "G", "U", "F">>)

\* -\d+-of-\d+
SplitSuffix == <<Lit("-"), Many(Digits)>> \o LitSeq(<<"-", "O", "F", "-">>) \o <<Many(Digits)>>

\* (Q[0-9]+_[A-Z0-9_]+) and (IQ[0-9]+_[A-Z0-9_]+)
QToken  == <<CapLit("Q"), CapMany(Digits), CapLit("_"), CapMany(WordChars)>>
IQToken == <<CapLit("I")>> \o QToken

\* (F16|F32|BF16), one alternative each, in the order of the alternation
FloatTokens == <<CapSeq(<<"F", "1", "6">>), CapSeq(<<"F", "3", "2">>),
                 CapSeq(<<"B", "F", "1", "6">>)>>

\* ((?:UD-)?TQ[0-9]+_[0-9]+): the greedy ? prefers the alternative with UD-
TQToken  == <<CapLit("T"), CapLit("Q"), CapMany(Digits), CapLit("_"), CapMany(Digits)>>
TQTokens_NoUD == <<TQToken>>
TQTokens == <<CapSeq(<<"U", "D", "-">>) \o TQToken, TQToken>>

\* a pattern of separator and token that does not ask for .gguf
Simple_NoExtension(tokens) == [a \in DOMAIN tokens |-> Separator \o tokens[a]]
Simple(tokens) == [a \in DOMAIN tokens |-> Separator \o tokens[a] \o DotGguf]
Split(tokens)  == [a \in DOMAIN tokens |-> Separator \o tokens[a] \o SplitSuffix \o DotGguf]

\* the pattern table without the split-file patterns
quantPatterns_NoSplit ==
    << Simple(<<QToken>>), Simple(<<IQToken>>), Simple(FloatTokens), Simple(TQTokens) >>

quantPatterns ==
    << Simple(<<QToken>>),     \* (?i)[._-](Q[0-9]+_[A-Z0-9_]+)\.gguf
       Simple(<<IQToken>>),    \* (?i)[._-](IQ[0-9]+_[A-Z0-9_]+)\.gguf
       Simple(FloatTokens),    \* (?i)[._-](F16|F32|BF16)\.gguf
       Simple(TQTokens),       \* (?i)[._-]((?:UD-)?TQ[0-9]+_[0-9]+)\.gguf
       Split(<<QToken>>),      \* (?i)[._-](Q[0-9]+_[A-Z0-9_]+)-\d+-of-\d+\.gguf
       Split(<<IQToken>>),     \* (?i)[._-](IQ[0-9]+_[A-Z0-9_]+)-\d+-of-\d+\.gguf
       Split(FloatTokens) >>   \* (?i)[._-](F16|F32|BF16)-\d+-of-\d+\.gguf

\* a directory pattern that takes any text before the first separator
dirQuantPattern_AnySegment == << <<CapMany(WordChars \cup {"-", "."}), Lit("/")>> >>

\* (?i)^([A-Z0-9_]+)/ ; the anchor ^ is the start position 1 of dirMatch
dirQuantPattern == << <<CapMany(WordChars), Lit("/")>> >>

\* dirQuantPattern.FindStringSubmatch: with ^ the only start is position 1
dirMatch(name) ==
    The({IF m.ok THEN <<SubSeq(name, 1, m.end), m.cap>> ELSE <<>> :
           m \in {MatchAt(dirQuantPattern, name, 1)}})

quantPrefixes == << <<"Q">>, <<"I", "Q">>, <<"F", "1", "6">>, <<"F", "3", "2">>,
                    <<"B", "F", "1", "6">>, <<"T", "Q">> >>

\* isQuantName: some prefix of the table starts the upper-cased string
isQuantName(s) ==
    LET upper == ToUpper(s)
    IN \E n \in DOMAIN quantPrefixes : HasPrefix(upper, quantPrefixes[n])

\* ------------------------------------------------------------------------
\* Bounds and the file listings the calls are run on
\* ------------------------------------------------------------------------
GgufExt == <<".", "g", "g", "u", "f">>

MaxSiblings == 3    \* longest listing built from CoreFiles
MaxCalls == 2       \* calls a caller makes on its listing

SeqsUpTo(S, n) == UNION {[1..k -> S] : k \in 0..n}

DIR_BF16 == <<"B", "F", "1", "6", "/">>
DIR_bf16 == <<"b", "f", "1", "6", "/">>
DIR_x == <<"x", "/">>
DIR_Qx == <<"Q", "-", "x", "/">>
TOK_Q4_K == <<"Q", "4", "_", "K">>
TOK_IQ4_NL == <<"I", "Q", "4", "_", "N", "L">>
TOK_F16 == <<"F", "1", "6">>
TOK_bf16 == <<"b", "f", "1", "6">>
TOK_TQ1_0 == <<"T", "Q", "1", "_", "0">>
TOK_UD_TQ1_0 == <<"U", "D", "-", "T", "Q", "1", "_", "0">>
TOK_IQ4_Q4_K == <<"I", "Q", "4", "_", "Q", "4", "_", "K">>

\* the parts a filename is put together from: directory, stem, separator,
\* quantization token, split suffix, extension
Dirs   == { <<>>, DIR_BF16, DIR_bf16, DIR_x, DIR_Qx }
Stems  == { <<>>, <<"m">> }
Seps   == { <<>>, <<"-">>, <<".">>, <<"_">> }
Tokens == { TOK_Q4_K, TOK_IQ4_NL, TOK_F16, TOK_bf16, TOK_TQ1_0, TOK_UD_TQ1_0, TOK_IQ4_Q4_K }
Splits == { <<>>, <<"-", "1", "-", "o", "f", "-", "2">> }
Exts   == { GgufExt, <<".", "G", "G", "U", "F">>, <<".", "b", "i", "n">> }

AllFiles ==
    { d \o st \o sp \o tk \o sf \o ex :
        d \in Dirs, st \in Stems, sp \in Seps, tk \in Tokens, sf \in Splits, ex \in Exts }

\* filenames with an odd shape: empty, a token without separator, .gguf
\* inside the name
OddFiles ==
    { <<>>,
      <<"m", "-", "q", "4", "_", "k", ".", "g", "g", "u", "f">>,
      <<"x", "/", "m", ".", "g", "g", "u", "f">>,
      <<"m", ".", "g", "g", "u", "f">>,
      <<"Q", "4", "_", "K", "-", "1", "-", "o", "f", "-", "2", ".", "g", "g", "u", "f">>,
      <<"m", "-", "F", "1", "6", ".", "g", "g", "u", "f", "-", "Q", "4", "_", "K", "-", "1", "-", "o", "f", "-", "2", ".", "g", "g", "u", "f">>,
      <<"a", "-", "I", "Q", "4", "_", "K", ".", "g", "g", "u", "f", "-", "Q", "4", "_", "K", ".", "g", "g", "u", "f">>,
      <<"m", "-", "Q", "4", "_", "K", ".", "g", "g", "u", "f", ".", "b", "a", "k">>,
      <<"m", "-", "U", "D", "-", "Q", "4", "_", "K", "_", "X", "L", ".", "g", "g", "u", "f">>,
      <<"m", "-", "Q", "4", "_", "F", "1", "6", "-", "1", "-", "o", "f", "-", "2", ".", "g", "g", "u", "f">>,
      <<"m", "-", "Q", "4", "_", "T", "Q", "1", "_", "0", ".", "g", "g", "u", "f">> }

\* the Unsloth variant and the plain variant of one ternary quantization
TQPair == << <<"m", "-", "U", "D", "-", "T", "Q", "1", "_", "0", ".", "g", "g", "u", "f">>,
            <<"m", "-", "T", "Q", "1", "_", "0", ".", "g", "g", "u", "f">> >>

\* listings of several files are built from these
CoreFiles ==
    { <<"m", "-", "Q", "4", "_", "K", "-", "1", "-", "o", "f", "-", "2", ".", "g", "g", "u", "f">>,
      <<"m", "-", "Q", "4", "_", "K", "-", "2", "-", "o", "f", "-", "2", ".", "g", "g", "u", "f">>,
      <<"b", "f", "1", "6", "/", "m", ".", "g", "g", "u", "f">>,
      <<"m", "-", "b", "f", "1", "6", ".", "G", "G", "U", "F">>,
      <<"m", "-", "Q", "4", "_", "K", ".", "g", "g", "u", "f", ".", "b", "a", "k">> }

Inputs == SeqsUpTo(CoreFiles, MaxSiblings) \cup {<<f>> : f \in AllFiles \cup OddFiles} \cup {TQPair}

\* ------------------------------------------------------------------------
\* State of a caller running ExtractQuantsFromSiblings on a file listing
\* ------------------------------------------------------------------------
VARIABLES
    siblings,   \* the argument: the RFilename of every sibling, in order
    pc,         \* position of the call: idle, range, dir, patterns, dedupe
    i,          \* position of the range loop in siblings
    j,          \* position of the loop over quantPatterns
    quant,      \* the local variable quant of the loop body ("" is <<>>)
    seen,       \* the keys of the map seen
    quants,     \* the slice quants
    returned    \* the results of the calls that have returned, in order

\* State of the callers that surround the extraction
VARIABLES
    conc,       \* the locals of each of several calls running at the same time
    fetch,      \* a call of Client.GetAvailableQuants and the server it talks to
    list        \* a call of api.Client.ListModels and the server it talks to

\* what the extraction leaves alone
callers == <<conc, fetch, list>>

vars == <<siblings, pc, i, j, quant, seen, quants, returned, conc, fetch, list>>

\* the loop variable filename of the current iteration
filename == siblings[i]

\* the guard of the continue without the lower-casing of the filename
IsGguf_CaseSensitive(name) == HasSuffix(name, GgufExt)

\* the guard of the continue: the filename is a candidate when its lower-cased
\* text ends in .gguf
IsGguf(name) == HasSuffix(ToLower(name), GgufExt)

\* the directory heuristic with an upper-cased capture
dirQuant_Upper(name) ==
    LET m == dirMatch(name)
    IN IF Len(m) > 1 /\ isQuantName(m[2]) THEN ToUpper(m[2]) ELSE <<>>

\* the directory heuristic: capture 1 of dirMatch when it looks like a
\* quantization name, stored as captured; "" otherwise
dirQuant(name) ==
    LET m == dirMatch(name)
    IN IF Len(m) > 1 /\ isQuantName(m[2]) THEN m[2] ELSE <<>>

\* the guard of the append without the lookup in seen
IsNew_NoLookup(q, sn) == q # <<>>

\* the guard of the append
IsNew(q, sn) == q # <<>> /\ q \notin sn

\* ------------------------------------------------------------------------
\* The function as a whole: the value the loop body leaves in quant for one
\* filename, and the result of the range loop over a listing
\* ------------------------------------------------------------------------

\* the loop over quantPatterns: the upper-cased capture of the first pattern
\* from k on that matches, "" when none does
RECURSIVE patternQuant(_, _)
patternQuant(name, k) ==
    IF k > Len(quantPatterns) THEN <<>>
    ELSE LET matches == FindStringSubmatch(quantPatterns[k], name)
         IN IF Len(matches) > 1 THEN ToUpper(matches[2])
            ELSE patternQuant(name, k + 1)

\* the value of quant at the append guard, "" for a filename that is skipped
quantOf(name) ==
    IF ~IsGguf(name) THEN <<>>
    ELSE IF dirQuant(name) # <<>> THEN dirQuant(name)
    ELSE patternQuant(name, 1)

\* the range loop from position n on, with the quants collected so far
RECURSIVE rangeFrom(_, _, _)
rangeFrom(xs, n, acc) ==
    IF n > Len(xs) THEN acc
    ELSE LET q == quantOf(xs[n])
         IN rangeFrom(xs, n + 1, IF IsNew(q, Range(acc)) THEN Append(acc, q) ELSE acc)

ExtractQuantsFromSiblings(xs) == rangeFrom(xs, 1, <<>>)

\* ------------------------------------------------------------------------
\* Actions
\* ------------------------------------------------------------------------

\* entry of the function with seen kept from the call before
Call_KeepSeen ==
    /\ pc = "idle"
    /\ Len(returned) < MaxCalls
    /\ seen' = seen
    /\ quants' = <<>>
    /\ i' = 1
    /\ j' = 1
    /\ quant' = <<>>
    /\ pc' = "range"
    /\ UNCHANGED <<siblings, returned>>
    /\ UNCHANGED callers

\* entry of the function: seen := make(map), quants := nil, start the range
Call ==
    /\ pc = "idle"
    /\ Len(returned) < MaxCalls
    /\ seen' = {}
    /\ quants' = <<>>
    /\ i' = 1
    /\ j' = 1
    /\ quant' = <<>>
    /\ pc' = "range"
    /\ UNCHANGED <<siblings, returned>>
    /\ UNCHANGED callers

\* the range is exhausted: return quants
Return ==
    /\ pc = "range"
    /\ i > Len(siblings)
    /\ returned' = Append(returned, quants)
    /\ pc' = "idle"
    /\ UNCHANGED <<siblings, i, j, quant, seen, quants>>
    /\ UNCHANGED callers

\* a filename that does not end in .gguf goes on to the label search
SkipNonGguf_Labelled ==
    /\ pc = "range"
    /\ i <= Len(siblings)
    /\ ~IsGguf(filename)
    /\ quant' = <<>>
    /\ pc' = "dir"
    /\ UNCHANGED <<siblings, i, j, seen, quants, returned>>
    /\ UNCHANGED callers

\* a filename that does not end in .gguf: continue
SkipNonGguf ==
    /\ pc = "range"
    /\ i <= Len(siblings)
    /\ ~IsGguf(filename)
    /\ i' = i + 1
    /\ UNCHANGED <<siblings, pc, j, quant, seen, quants, returned>>
    /\ UNCHANGED callers

\* a candidate filename: var quant string
Candidate ==
    /\ pc = "range"
    /\ i <= Len(siblings)
    /\ IsGguf(filename)
    /\ quant' = <<>>
    /\ pc' = "dir"
    /\ UNCHANGED <<siblings, i, j, seen, quants, returned>>
    /\ UNCHANGED callers

\* the directory label is set but the loop over quantPatterns is entered all
\* the same
DirFound_FallThrough ==
    /\ pc = "dir"
    /\ dirQuant(filename) # <<>>
    /\ quant' = dirQuant(filename)
    /\ j' = 1
    /\ pc' = "patterns"
    /\ UNCHANGED <<siblings, i, seen, quants, returned>>
    /\ UNCHANGED callers

\* the filename lies in a quant-named directory: quant = potentialQuant, and
\* the loop over the patterns is not entered because quant # ""
DirFound ==
    /\ pc = "dir"
    /\ dirQuant(filename) # <<>>
    /\ quant' = dirQuant(filename)
    /\ pc' = "dedupe"
    /\ UNCHANGED <<siblings, i, j, seen, quants, returned>>
    /\ UNCHANGED callers

\* no quant-named directory: quant == "", enter the loop over quantPatterns
DirNotFound ==
    /\ pc = "dir"
    /\ dirQuant(filename) = <<>>
    /\ j' = 1
    /\ pc' = "patterns"
    /\ UNCHANGED <<siblings, i, quant, seen, quants, returned>>
    /\ UNCHANGED callers

\* pattern j matches, without the break
PatternMatch_NoBreak ==
    /\ pc = "patterns"
    /\ j <= Len(quantPatterns)
    /\ LET matches == FindStringSubmatch(quantPatterns[j], filename)
       IN /\ Len(matches) > 1
          /\ quant' = ToUpper(matches[2])
    /\ j' = j + 1
    /\ UNCHANGED <<siblings, pc, i, seen, quants, returned>>
    /\ UNCHANGED callers

\* pattern j matches: quant = ToUpper(matches[1]); break
PatternMatch ==
    /\ pc = "patterns"
    /\ j <= Len(quantPatterns)
    /\ LET matches == FindStringSubmatch(quantPatterns[j], filename)
       IN /\ Len(matches) > 1
          /\ quant' = ToUpper(matches[2])
    /\ pc' = "dedupe"
    /\ UNCHANGED <<siblings, i, j, seen, quants, returned>>
    /\ UNCHANGED callers

\* pattern j does not match: next pattern
PatternMiss ==
    /\ pc = "patterns"
    /\ j <= Len(quantPatterns)
    /\ Len(FindStringSubmatch(quantPatterns[j], filename)) <= 1
    /\ j' = j + 1
    /\ UNCHANGED <<siblings, pc, i, quant, seen, quants, returned>>
    /\ UNCHANGED callers

\* no pattern matched and the filename itself is taken as the label
PatternsExhausted_Fallback ==
    /\ pc = "patterns"
    /\ j > Len(quantPatterns)
    /\ quant' = filename
    /\ pc' = "dedupe"
    /\ UNCHANGED <<siblings, i, j, seen, quants, returned>>
    /\ UNCHANGED callers

\* no pattern matched: the loop over quantPatterns ends with quant == ""
PatternsExhausted ==
    /\ pc = "patterns"
    /\ j > Len(quantPatterns)
    /\ pc' = "dedupe"
    /\ UNCHANGED <<siblings, i, j, quant, seen, quants, returned>>
    /\ UNCHANGED callers

\* a new label is put in front of quants
AppendQuant_Prepend ==
    /\ pc = "dedupe"
    /\ IsNew(quant, seen)
    /\ seen' = seen \cup {quant}
    /\ quants' = <<quant>> \o quants
    /\ i' = i + 1
    /\ pc' = "range"
    /\ UNCHANGED <<siblings, j, quant, returned>>
    /\ UNCHANGED callers

\* a label seen for the first time: seen[quant] = true; append
AppendQuant ==
    /\ pc = "dedupe"
    /\ IsNew(quant, seen)
    /\ seen' = seen \cup {quant}
    /\ quants' = Append(quants, quant)
    /\ i' = i + 1
    /\ pc' = "range"
    /\ UNCHANGED <<siblings, j, quant, returned>>
    /\ UNCHANGED callers

\* no label, or a label already seen: next filename
SkipQuant ==
    /\ pc = "dedupe"
    /\ ~IsNew(quant, seen)
    /\ i' = i + 1
    /\ pc' = "range"
    /\ UNCHANGED <<siblings, j, quant, seen, quants, returned>>
    /\ UNCHANGED callers

Next ==
    \/ Call
    \/ Return
    \/ SkipNonGguf
    \/ Candidate
    \/ DirFound
    \/ DirNotFound
    \/ PatternMatch
    \/ PatternMiss
    \/ PatternsExhausted
    \/ AppendQuant
    \/ SkipQuant

Init ==
    /\ siblings \in Inputs
    /\ pc = "idle"
    /\ i = 1
    /\ j = 1
    /\ quant = <<>>
    /\ seen = {}
    /\ quants = <<>>
    /\ returned = <<>>
    /\ conc = <<>>
    /\ fetch = [pc |-> "idle"]
    /\ list = [pc |-> "idle"]

Spec == Init /\ [][Next]_vars

\* a call that is running keeps running: the function is synchronous and
\* nothing in it blocks
FairSpec == Spec /\ WF_vars(Next)

\* ------------------------------------------------------------------------
\* Properties
\* ------------------------------------------------------------------------

\* the step machine and the function as a whole agree on every result
StepsAgree ==
    pc = "idle" => \A r \in DOMAIN returned : returned[r] = ExtractQuantsFromSiblings(siblings)

NoDuplicates(xs) == \A a, b \in DOMAIN xs : a # b => xs[a] # xs[b]

\* C1: the sequence built by ExtractQuantsFromSiblings, and every sequence it
\* returns, contains no two entries that are equal as exact strings.
C1_NoDuplicateEntries ==
    /\ NoDuplicates(quants)
    /\ \A r \in DOMAIN returned : NoDuplicates(returned[r])

\* a filename whose label was already seen is about to be skipped
C1_Witness == pc = "dedupe" /\ quant # <<>> /\ quant \in seen

IsUpperCase(s) == \A n \in DOMAIN s : s[n] \notin LowerSet

\* C2: every label returned by ExtractQuantsFromSiblings is upper-case (it
\* contains no lower-case letter), whether it came from the leading directory
\* segment or from a shape pattern.
C2_LabelsUpperCase ==
    \A r \in DOMAIN returned : \A n \in DOMAIN returned[r] : IsUpperCase(returned[r][n])

\* C3: the returned sequence contains no two entries that become equal after
\* both are normalized to upper case.
C3_NoDuplicatesUpToCase ==
    \A r \in DOMAIN returned : NoDuplicates([n \in DOMAIN returned[r] |-> ToUpper(returned[r][n])])

\* the last five characters spell .gguf in some letter case
EndsInGgufAnyCase(name) ==
    /\ Len(name) >= 5
    /\ \A k \in 1..5 : ToLowerChar(name[Len(name) - 5 + k]) = GgufExt[k]

\* C4: a filename that does not end in .gguf (in any letter case) contributes
\* nothing: its iteration leaves seen and quants alone and every result is
\* the result for the listing without such filenames; a filename that ends
\* in .gguf in any letter case goes on to the label search.
C4_NonGgufContributesNothing ==
    /\ [](pc = "idle" => \A r \in DOMAIN returned :
            returned[r] = ExtractQuantsFromSiblings(SelectSeq(siblings, EndsInGgufAnyCase)))
    /\ [][(pc = "range" /\ i <= Len(siblings)) =>
            IF EndsInGgufAnyCase(siblings[i])
            THEN pc' = "dir"
            ELSE pc' = "range" /\ i' = i + 1 /\ seen' = seen /\ quants' = quants]_vars

\* a listing with a skipped filename that carries a quantization token and a
\* .GGUF filename that supplies the only label of the result
C4_Witness ==
    /\ returned # <<>>
    /\ \E a, b \in DOMAIN siblings :
          /\ ~EndsInGgufAnyCase(siblings[a])
          /\ patternQuant(siblings[a], 1) # <<>>
          /\ HasSuffix(siblings[b], <<".", "G", "G", "U", "F">>)
          /\ quantOf(siblings[b]) # <<>>
          /\ returned[1] = <<quantOf(siblings[b])>>

\* the text before the first path separator, "" without a path separator
LeadingSegment(name) ==
    LET slashes == {n \in DOMAIN name : name[n] = "/"}
    IN IF slashes = {} THEN <<>> ELSE SubSeq(name, 1, Min(slashes) - 1)

\* C5: when the directory heuristic yields a label for a .gguf filename, the
\* leading directory segment is the label of the filename and the loop over
\* the shape patterns is not entered for it.
C5_DirectoryFirst ==
    /\ pc = "patterns" => dirQuant(filename) = <<>>
    /\ (pc = "dedupe" /\ dirQuant(filename) # <<>>) => quant = LeadingSegment(filename)

\* a filename in a quant-named directory whose name also matches a shape
\* pattern with another quantization
C5_Witness ==
    /\ pc = "dedupe"
    /\ dirQuant(filename) # <<>>
    /\ patternQuant(filename, 1) # <<>>
    /\ patternQuant(filename, 1) # ToUpper(quant)

\* the label every filename of the listing yields, by position
YieldedLabels == [n \in DOMAIN siblings |-> quantOf(siblings[n])]

\* the position of the first filename whose label is the given one
FirstYield(labels, label) == Min({n \in DOMAIN labels : labels[n] = label})

InDiscoveryOrder(xs) ==
    LET labels == YieldedLabels
    IN /\ \A a \in DOMAIN xs : \E n \in DOMAIN labels : labels[n] = xs[a]
       /\ \A a, b \in DOMAIN xs :
             (a < b) <=> (FirstYield(labels, xs[a]) < FirstYield(labels, xs[b]))

\* C6: the result is in first-discovery order: label A precedes label B
\* exactly when the first filename yielding A comes before the first filename
\* yielding B; a filename yielding a label already seen leaves quants as it is.
C6_FirstDiscoveryOrder ==
    /\ [](pc = "range" => InDiscoveryOrder(quants))
    /\ [](pc = "idle" => \A r \in DOMAIN returned : InDiscoveryOrder(returned[r]))
    /\ [][(pc = "dedupe" /\ quant \in seen) => quants' = quants]_vars

\* a returned result of two labels for a listing whose third filename yields
\* the label of the first again
C6_Witness ==
    /\ returned # <<>>
    /\ Len(siblings) = 3
    /\ quantOf(siblings[1]) # <<>>
    /\ quantOf(siblings[3]) = quantOf(siblings[1])
    /\ quantOf(siblings[2]) \notin {<<>>, quantOf(siblings[1])}
    /\ returned[1] = <<quantOf(siblings[1]), quantOf(siblings[2])>>

\* the shape patterns that match a filename, by position in quantPatterns
MatchingPatterns(name) ==
    {k \in DOMAIN quantPatterns : Len(FindStringSubmatch(quantPatterns[k], name)) > 1}

\* C7: ExtractQuantsFromSiblings is total: every call that was started
\* returns, whatever the listing; a filename matched by neither the directory
\* heuristic nor any shape pattern contributes no label.
C7_Total ==
    /\ (pc # "idle") ~> (pc = "idle")
    /\ [][(pc = "dedupe" /\ dirQuant(filename) = <<>> /\ MatchingPatterns(filename) = {})
            => (quants' = quants /\ seen' = seen)]_vars

\* a call has returned the empty result for a listing with a .gguf filename
\* that carries no recognizable quantization marker
C7_Witness ==
    /\ returned # <<>>
    /\ returned[1] = <<>>
    /\ \E n \in DOMAIN siblings :
          /\ IsGguf(siblings[n])
          /\ dirQuant(siblings[n]) = <<>>
          /\ MatchingPatterns(siblings[n]) = {}

\* C8: ExtractQuantsFromSiblings is a pure function of its argument: all
\* calls on the same listing return the same result, every call starts its
\* loop with an empty seen and an empty quants, and the listing is never
\* written.
C8_PureFunction ==
    /\ [](\A a, b \in DOMAIN returned : returned[a] = returned[b])
    /\ []((pc = "range" /\ i = 1) => (seen = {} /\ quants = <<>>))
    /\ [][siblings' = siblings]_vars

\* two calls on the same listing have returned a result with labels
C8_Witness == Len(returned) >= 2 /\ returned[1] # <<>> /\ returned[2] # <<>>

\* the position the leftmost match of pattern k starts at
MatchStart(k, name) == Min({p \in DOMAIN name : MatchAt(quantPatterns[k], name, p).ok})

\* C9: when the directory heuristic does not apply, the label of a .gguf
\* filename is the upper-cased capture of the first pattern of quantPatterns
\* that matches it; a pattern is consulted only when every pattern before it
\* failed, and none is consulted after the first match.
C9_FirstPatternWins ==
    /\ pc = "patterns" => \A k \in MatchingPatterns(filename) : k >= j
    /\ (pc = "dedupe" /\ dirQuant(filename) = <<>>) =>
          LET M == MatchingPatterns(filename)
          IN IF M = {} THEN quant = <<>>
             ELSE /\ j = Min(M)
                  /\ quant = ToUpper(FindStringSubmatch(quantPatterns[Min(M)], filename)[2])

\* a filename matched by two patterns with different captures, the match of
\* the later pattern starting further left
C9_Witness ==
    /\ pc = "dedupe"
    /\ dirQuant(filename) = <<>>
    /\ \E a, b \in MatchingPatterns(filename) :
          /\ a < b
          /\ a = j
          /\ MatchStart(b, filename) < MatchStart(a, filename)
          /\ ToUpper(FindStringSubmatch(quantPatterns[b], filename)[2]) # quant

\* .gguf occurs in the filename only as its last five characters
OnlyFinalGguf(name) ==
    /\ EndsInGgufAnyCase(name)
    /\ \A p \in 1..(Len(name) - 5) : ToLower(SubSeq(name, p, p + 4)) # GgufExt

\* separator, token of the Q, IQ or float family, split suffix, .gguf
SplitShapes == Split(<<QToken, IQToken>> \o FloatTokens)

\* token of the Q, IQ or float family, split suffix, .gguf
BareSplitShapes ==
    LET tokens == <<QToken, IQToken>> \o FloatTokens
    IN [a \in DOMAIN tokens |-> tokens[a] \o SplitSuffix \o DotGguf]

\* the positions at which a shape matches the filename up to its end
ShapeStarts(shapes, name) ==
    {p \in DOMAIN name : MatchAt(shapes, name, p).ok /\ MatchAt(shapes, name, p).end = Len(name)}

\* the token of the leftmost such match
ShapeToken(shapes, name) == MatchAt(shapes, name, Min(ShapeStarts(shapes, name))).cap

\* the filename without the split suffix that follows the token
NonSplitName(shapes, name) ==
    LET p == Min(ShapeStarts(shapes, name))
        sep == IF shapes = SplitShapes THEN 1 ELSE 0
    IN SubSeq(name, 1, p + sep + Len(ShapeToken(shapes, name)) - 1)
         \o SubSeq(name, Len(name) - 4, Len(name))

\* a .gguf filename outside a quant-named directory that ends in exactly one
\* separator-led token of the Q, IQ or float family, split suffix and .gguf,
\* and holds no other .gguf
IsSplitShard(name) ==
    /\ IsGguf(name)
    /\ dirQuant(name) = <<>>
    /\ OnlyFinalGguf(name)
    /\ Cardinality(ShapeStarts(SplitShapes, name)) = 1

\* a .gguf filename outside a quant-named directory that ends in a token of
\* the Q, IQ or float family, split suffix and .gguf
IsBareSplitShard(name) ==
    /\ IsGguf(name)
    /\ dirQuant(name) = <<>>
    /\ ShapeStarts(BareSplitShapes, name) # {}

\* the listing holds shards only, all with the same token up to case
ShardsOfOneToken(shapes, IsShard(_)) ==
    /\ siblings # <<>>
    /\ \A n \in DOMAIN siblings : IsShard(siblings[n])
    /\ \A m \in DOMAIN siblings :
          ToUpper(ShapeToken(shapes, siblings[m])) = ToUpper(ShapeToken(shapes, siblings[1]))

\* the label of a shard is its token upper-cased and the label of the
\* non-split filename; a listing of shards of one token yields one entry
SplitSupport(shapes, IsShard(_)) ==
    /\ (pc = "dedupe" /\ IsShard(filename)) =>
          /\ quant = ToUpper(ShapeToken(shapes, filename))
          /\ quant = quantOf(NonSplitName(shapes, filename))
    /\ (pc = "idle" /\ returned # <<>> /\ ShardsOfOneToken(shapes, IsShard)) =>
          \A r \in DOMAIN returned : returned[r] = <<ToUpper(ShapeToken(shapes, siblings[1]))>>

\* C10 (as claimed): for a .gguf filename with no quant-named leading
\* directory in which a Q, IQ or float token is followed by a split suffix
\* before .gguf, the label is that token upper-cased, equal to the label of
\* the non-split filename; all shards of one split model contribute one entry.
C10_SplitSupport_AsClaimed == SplitSupport(BareSplitShapes, IsBareSplitShard)

\* C10 (amended): the same for filenames in which the token is directly
\* preceded by one of . _ - , is the only such token, and .gguf occurs only as
\* the final extension.
C10_SplitSupport == SplitSupport(SplitShapes, IsSplitShard)

\* a listing of two different shards of one split model has been answered
C10_Witness ==
    /\ returned # <<>>
    /\ Len(siblings) >= 2
    /\ siblings[1] # siblings[2]
    /\ \A n \in DOMAIN siblings : IsSplitShard(siblings[n])
    /\ Len(returned[1]) = 1

\* ------------------------------------------------------------------------
\* Several calls of ExtractQuantsFromSiblings running at the same time.
\* Every call has its own pattern table, map seen and slice quants: they
\* are locals of the function, so each call is a record of its own.
\* ------------------------------------------------------------------------
NumCallers == 2

Callers == 1..NumCallers

File_Shard1 == <<"m", "-", "Q", "4", "_", "K", "-", "1", "-", "o", "f", "-", "2", ".", "g", "g", "u", "f">>
File_Shard2 == <<"m", "-", "Q", "4", "_", "K", "-", "2", "-", "o", "f", "-", "2", ".", "g", "g", "u", "f">>
File_DirBf16 == <<"b", "f", "1", "6", "/", "m", ".", "g", "g", "u", "f">>
File_ExtBF16 == <<"m", "-", "b", "f", "1", "6", ".", "G", "G", "U", "F">>
File_Backup == <<"m", "-", "Q", "4", "_", "K", ".", "g", "g", "u", "f", ".", "b", "a", "k">>
File_Plain == <<"m", ".", "g", "g", "u", "f">>

\* the file listings the callers pass
Listings ==
    { <<>>,
      <<File_Shard1, File_Shard2>>,
      <<File_DirBf16, File_ExtBF16>>,
      <<File_Backup, File_Shard2, File_DirBf16>>,
      <<File_Plain>> }

\* the variables of a single extraction
extraction == <<siblings, pc, i, j, quant, seen, quants, returned>>

\* no extraction is running outside the callers
NoExtraction ==
    /\ siblings = <<>>
    /\ pc = "idle"
    /\ i = 1
    /\ j = 1
    /\ quant = <<>>
    /\ seen = {}
    /\ quants = <<>>
    /\ returned = <<>>

\* the map seen that the call c reads and writes
seenOf_Shared(c) == UNION {conc[d].seen : d \in Callers}
seenOf(c) == conc[c].seen

\* the loop variable filename of the call c
filenameOf(c) == conc[c].siblings[conc[c].i]

\* the call c enters the function and makes its locals
ConcCall(c) ==
    /\ conc[c].pc = "idle"
    /\ conc' = [conc EXCEPT ![c].pc = "range", ![c].i = 1, ![c].quant = <<>>,
                            ![c].seen = {}, ![c].quants = <<>>]
    /\ UNCHANGED <<extraction, fetch, list>>

\* the loop of the call c is over: it returns its own quants
ConcReturn(c) ==
    /\ conc[c].pc = "range"
    /\ conc[c].i > Len(conc[c].siblings)
    /\ conc' = [conc EXCEPT ![c].pc = "done", ![c].result = conc[c].quants]
    /\ UNCHANGED <<extraction, fetch, list>>

ConcSkipNonGguf(c) ==
    /\ conc[c].pc = "range"
    /\ conc[c].i <= Len(conc[c].siblings)
    /\ ~IsGguf(filenameOf(c))
    /\ conc' = [conc EXCEPT ![c].i = @ + 1]
    /\ UNCHANGED <<extraction, fetch, list>>

\* the directory heuristic and the pattern loop, which touch only quant
ConcLabel(c) ==
    /\ conc[c].pc = "range"
    /\ conc[c].i <= Len(conc[c].siblings)
    /\ IsGguf(filenameOf(c))
    /\ conc' = [conc EXCEPT ![c].pc = "dedupe", ![c].quant = quantOf(filenameOf(c))]
    /\ UNCHANGED <<extraction, fetch, list>>

ConcAppendQuant(c) ==
    /\ conc[c].pc = "dedupe"
    /\ IsNew(conc[c].quant, seenOf(c))
    /\ conc' = [conc EXCEPT ![c].pc = "range", ![c].i = @ + 1,
                            ![c].seen = @ \cup {conc[c].quant},
                            ![c].quants = Append(@, conc[c].quant)]
    /\ UNCHANGED <<extraction, fetch, list>>

ConcSkipQuant(c) ==
    /\ conc[c].pc = "dedupe"
    /\ ~IsNew(conc[c].quant, seenOf(c))
    /\ conc' = [conc EXCEPT ![c].pc = "range", ![c].i = @ + 1]
    /\ UNCHANGED <<extraction, fetch, list>>

ConcNext ==
    \E c \in Callers :
        \/ ConcCall(c)
        \/ ConcReturn(c)
        \/ ConcSkipNonGguf(c)
        \/ ConcLabel(c)
        \/ ConcAppendQuant(c)
        \/ ConcSkipQuant(c)

ConcInit ==
    /\ NoExtraction
    /\ conc \in [Callers -> {[siblings |-> l, pc |-> "idle", i |-> 1, quant |-> <<>>,
                              seen |-> {}, quants |-> <<>>, result |-> <<>>] : l \in Listings}]
    /\ fetch = [pc |-> "idle"]
    /\ list = [pc |-> "idle"]

ConcSpec == ConcInit /\ [][ConcNext]_vars

\* C11: calls running at the same time do not interfere: under every
\* interleaving of their steps each call holds, between two iterations,
\* the labels it would hold alone after the files it has passed, and it
\* returns what it would return alone
C11_NoInterference ==
    \A c \in DOMAIN conc :
        /\ conc[c].pc = "range" =>
             conc[c].quants =
                 ExtractQuantsFromSiblings(SubSeq(conc[c].siblings, 1, conc[c].i - 1))
        /\ conc[c].pc = "done" =>
             conc[c].result = ExtractQuantsFromSiblings(conc[c].siblings)

\* two calls are in the middle of their loops at once, and one is about
\* to record a label the other has recorded already
C11_Witness ==
    \E c \in DOMAIN conc : \E d \in DOMAIN conc :
        /\ c # d
        /\ conc[c].pc = "dedupe"
        /\ conc[d].pc \in {"range", "dedupe"}
        /\ conc[d].i > 1
        /\ conc[c].quant \in conc[d].seen
        /\ conc[c].quant \notin conc[c].seen

\* ------------------------------------------------------------------------
\* Client.GetAvailableQuants: GetModelDetails, then the extraction over the
\* file listing of the record it decoded. The server is fixed when the call
\* starts: whether the URL of the model id parses, whether the transport
\* delivers a response, the status it answers with, whether its body is a
\* JSON document, and the listing (siblings) the document carries.
\* ------------------------------------------------------------------------
StatusOK == 200

\* the statuses the server answers with
Statuses == {StatusOK, 404}

\* the error value nil
NoError == "nil"

\* http.NewRequest rejects the URL
DetailsNewRequestError ==
    /\ fetch.pc = "request"
    /\ ~fetch.urlOk
    /\ fetch' = [fetch EXCEPT !.pc = "done", !.err = "request"]
    /\ UNCHANGED <<extraction, conc, list>>

\* the request is made; it carries the token when the client has one
DetailsNewRequest ==
    /\ fetch.pc = "request"
    /\ fetch.urlOk
    /\ fetch' = [fetch EXCEPT !.pc = "do", !.authorization = fetch.hasToken]
    /\ UNCHANGED <<extraction, conc, list>>

\* httpClient.Do fails
DetailsDoError ==
    /\ fetch.pc = "do"
    /\ ~fetch.reachable
    /\ fetch' = [fetch EXCEPT !.pc = "done", !.err = "transport"]
    /\ UNCHANGED <<extraction, conc, list>>

DetailsDo ==
    /\ fetch.pc = "do"
    /\ fetch.reachable
    /\ fetch' = [fetch EXCEPT !.pc = "status"]
    /\ UNCHANGED <<extraction, conc, list>>

\* resp.StatusCode != http.StatusOK: the body becomes the error text
DetailsStatusNotOK_Decode ==
    /\ fetch.pc = "status"
    /\ fetch.status # StatusOK
    /\ fetch' = [fetch EXCEPT !.pc = "decode"]
    /\ UNCHANGED <<extraction, conc, list>>
DetailsStatusNotOK ==
    /\ fetch.pc = "status"
    /\ fetch.status # StatusOK
    /\ fetch' = [fetch EXCEPT !.pc = "done", !.err = "status"]
    /\ UNCHANGED <<extraction, conc, list>>

DetailsStatusOK ==
    /\ fetch.pc = "status"
    /\ fetch.status = StatusOK
    /\ fetch' = [fetch EXCEPT !.pc = "decode"]
    /\ UNCHANGED <<extraction, conc, list>>

\* the body is not a JSON document for ModelDetails
DetailsDecodeError ==
    /\ fetch.pc = "decode"
    /\ ~fetch.bodyOk
    /\ fetch' = [fetch EXCEPT !.pc = "done", !.err = "decode"]
    /\ UNCHANGED <<extraction, conc, list>>

\* GetModelDetails returns the record: details.Siblings is siblings
DetailsDecode ==
    /\ fetch.pc = "decode"
    /\ fetch.bodyOk
    /\ fetch' = [fetch EXCEPT !.pc = "extract"]
    /\ UNCHANGED <<extraction, conc, list>>

\* GetAvailableQuants calls the extraction, once
ExtractCall ==
    /\ fetch.pc = "extract"
    /\ returned = <<>>
    /\ Call

\* the extraction has returned: its result is returned with a nil error
ReturnQuants ==
    /\ fetch.pc = "extract"
    /\ pc = "idle"
    /\ returned # <<>>
    /\ fetch' = [fetch EXCEPT !.pc = "done", !.labels = returned[1], !.err = NoError]
    /\ UNCHANGED <<extraction, conc, list>>

FetchNext ==
    \/ DetailsNewRequestError
    \/ DetailsNewRequest
    \/ DetailsDoError
    \/ DetailsDo
    \/ DetailsStatusNotOK
    \/ DetailsStatusOK
    \/ DetailsDecodeError
    \/ DetailsDecode
    \/ ExtractCall
    \/ ReturnQuants
    \/ Return
    \/ SkipNonGguf
    \/ Candidate
    \/ DirFound
    \/ DirNotFound
    \/ PatternMatch
    \/ PatternMiss
    \/ PatternsExhausted
    \/ AppendQuant
    \/ SkipQuant

FetchInit ==
    /\ siblings \in Listings
    /\ pc = "idle"
    /\ i = 1
    /\ j = 1
    /\ quant = <<>>
    /\ seen = {}
    /\ quants = <<>>
    /\ returned = <<>>
    /\ conc = <<>>
    /\ fetch \in [pc : {"request"}, urlOk : BOOLEAN, reachable : BOOLEAN,
                  status : Statuses, bodyOk : BOOLEAN,
                  hasToken : BOOLEAN, authorization : {FALSE},
                  labels : {<<>>}, err : {NoError}]
    /\ list = [pc |-> "idle"]

FetchSpec == FetchInit /\ [][FetchNext]_vars

\* fetching the model details fails
FetchFails ==
    \/ ~fetch.urlOk
    \/ ~fetch.reachable
    \/ fetch.status # StatusOK
    \/ ~fetch.bodyOk

\* C12: GetAvailableQuants returns an error exactly when fetching the
\* details fails (request construction, transport, status other than 200,
\* undecodable body); then it returns no labels and the extraction never
\* runs; otherwise it returns the extraction of the record's listing with
\* a nil error, also when that is empty
C12_ErrorIffFetchFails ==
    /\ FetchFails =>
         /\ pc = "idle"
         /\ returned = <<>>
         /\ seen = {}
         /\ quants = <<>>
    /\ fetch.pc = "done" =>
         /\ (fetch.err # NoError) <=> FetchFails
         /\ fetch.err # NoError => fetch.labels = <<>>
         /\ fetch.err = NoError => fetch.labels = ExtractQuantsFromSiblings(siblings)

\* the server holds a listing with GGUF files and answers with a status other than 200: the call
\* has returned an error and no labels
C12_Witness ==
    /\ fetch.pc = "done"
    /\ fetch.urlOk
    /\ fetch.reachable
    /\ fetch.status # StatusOK
    /\ fetch.err = "status"
    /\ fetch.labels = <<>>
    /\ ExtractQuantsFromSiblings(siblings) # <<>>

\* ------------------------------------------------------------------------
\* Where in the filename a pattern label comes from
\* ------------------------------------------------------------------------

\* the loop body holds a label that a shape pattern supplied
PatternLabelled ==
    /\ pc = "dedupe"
    /\ dirQuant(filename) = <<>>
    /\ quant # <<>>

\* the position at which the match that supplies the pattern label ends
LabelMatchEnd(name) ==
    The({MatchAt(quantPatterns[k], name, MatchStart(k, name)).end :
           k \in {Min(MatchingPatterns(name))}})

\* -<digits>-of-<digits>, in lower case
IsSplitSuffix(s) ==
    \E a \in 2..(Len(s) - 5) :
        /\ s[1] = "-"
        /\ \A n \in 2..a : s[n] \in Digits
        /\ SubSeq(s, a + 1, a + 4) = <<"-", "o", "f", "-">>
        /\ \A n \in (a + 5)..Len(s) : s[n] \in Digits

\* the ends of the occurrences of .gguf in the filename that directly follow
\* the token q, or a split suffix that directly follows the token q
TokenEnds(name, q) ==
    {e \in 5..Len(name) :
        /\ ToLower(SubSeq(name, e - 4, e)) = GgufExt
        /\ \E t \in Len(q)..(e - 5) :
              /\ ToUpper(SubSeq(name, t - Len(q) + 1, t)) = q
              /\ \/ t = e - 5
                 \/ IsSplitSuffix(ToLower(SubSeq(name, t + 1, e - 5)))}

\* C13 (as claimed): every shape pattern is anchored at the end of the
\* string: the match that supplies a pattern label ends with the terminal
\* .gguf of the filename, never with a .gguf in the middle of it.
C13_AnchoredAtEnd_AsClaimed ==
    PatternLabelled => LabelMatchEnd(filename) = Len(filename)

\* C13 (amended): the match that supplies a pattern label ends with a .gguf
\* that directly follows the token of the label, or a split suffix directly
\* after that token; this is the terminal .gguf when .gguf occurs only as
\* the final extension of the filename.
C13_TokenBeforeGguf ==
    PatternLabelled =>
        /\ LabelMatchEnd(filename) \in TokenEnds(filename, quant)
        /\ OnlyFinalGguf(filename) => LabelMatchEnd(filename) = Len(filename)

\* a filename that holds .gguf twice: the label is the token before the
\* first one, and a split token stands before the terminal one
C13_Witness ==
    /\ PatternLabelled
    /\ LabelMatchEnd(filename) < Len(filename)
    /\ TokenEnds(filename, quant) # {}
    /\ ~OnlyFinalGguf(filename)

\* ------------------------------------------------------------------------
\* The separator before a token
\* ------------------------------------------------------------------------

\* token of the Q or IQ family and .gguf, with nothing before the token
BareShapes == <<QToken \o DotGguf, IQToken \o DotGguf>>

\* the start of the filename and the positions after its path separators
SegmentStarts(name) == {1} \cup {n + 1 : n \in {m \in DOMAIN name : name[m] = "/"}}

\* the starts of a segment that is a Q or IQ token and the final .gguf
BareTokenStarts(name) ==
    {p \in SegmentStarts(name) :
        MatchAt(BareShapes, name, p).ok /\ MatchAt(BareShapes, name, p).end = Len(name)}

\* that token, upper-cased
BareToken(name) == ToUpper(MatchAt(BareShapes, name, Min(BareTokenStarts(name))).cap)

\* the loop body is done with a filename outside a quant-named directory
\* that starts with the token, or holds it right after a path separator
BareTokenDone ==
    /\ pc = "dedupe"
    /\ dirQuant(filename) = <<>>
    /\ BareTokenStarts(filename) # {}

\* the label q stands in the filename directly after one of . _ -
AfterSeparator(name, q) ==
    \E p \in 2..Len(name) :
        /\ name[p - 1] \in {".", "_", "-"}
        /\ ToUpper(SubSeq(name, p, p + Len(q) - 1)) = q

HasSlash(name) == \E n \in DOMAIN name : name[n] = "/"

\* letters, digits and underscores only, and at least one
IsWord(s) == s # <<>> /\ \A n \in DOMAIN s : ToUpperChar(s[n]) \in WordChars

\* the loop body is done with a filename that holds a path separator
SegmentDone == pc = "dedupe" /\ HasSlash(filename)

\* C15 (as claimed): for a .gguf filename with a path separator, the text
\* before the first separator is the label whenever, upper-cased, it begins
\* with Q, IQ, F16, F32, BF16 or TQ, whatever else it contains; otherwise
\* the directory heuristic yields nothing.
C15_LeadingSegmentDecides_AsClaimed ==
    SegmentDone =>
        IF isQuantName(LeadingSegment(filename))
        THEN quant = LeadingSegment(filename)
        ELSE dirQuant(filename) = <<>>

\* C15 (amended): the text before the first separator is the label when it
\* consists of letters, digits and underscores only and, upper-cased, begins
\* with Q, IQ, F16, F32, BF16 or TQ; otherwise (a hyphen or a dot in the
\* segment, or another beginning) the directory heuristic yields nothing and
\* the label is left to the shape patterns.
C15_WordSegmentDecides ==
    /\ SegmentDone =>
         IF IsWord(LeadingSegment(filename)) /\ isQuantName(LeadingSegment(filename))
         THEN quant = LeadingSegment(filename)
         ELSE dirQuant(filename) = <<>> /\ quant = patternQuant(filename, 1)
    /\ (pc = "dedupe" /\ ~HasSlash(filename)) => dirQuant(filename) = <<>>

\* a leading segment that begins with Q and holds a hyphen: the label is
\* the token of the filename, not the segment
C15_Witness ==
    /\ SegmentDone
    /\ isQuantName(LeadingSegment(filename))
    /\ ~IsWord(LeadingSegment(filename))
    /\ quant # <<>>
    /\ quant # LeadingSegment(filename)

\* ------------------------------------------------------------------------
\* The letter case of the labels
\* ------------------------------------------------------------------------
Labels(xs) == {xs[n] : n \in DOMAIN xs}

\* C16: a label that comes from the directory is the text of the filename
\* before its first separator, letter for letter in the case found there; a
\* label that comes from a shape pattern is upper-cased; seen compares the
\* labels as stored, so the result holds every label that some filename
\* yields, also two that differ in letter case only.
C16_CasingAsymmetry ==
    /\ (pc = "dedupe" /\ dirQuant(filename) # <<>>) =>
          /\ quant = SubSeq(filename, 1, Len(quant))
          /\ filename[Len(quant) + 1] = "/"
    /\ PatternLabelled => IsUpperCase(quant)
    /\ pc = "idle" =>
          \A r \in DOMAIN returned :
              Labels(returned[r]) = {quantOf(siblings[n]) : n \in DOMAIN siblings} \ {<<>>}

\* a result with a directory label in lower case next to the pattern label
\* that is its upper-case form
C16_Witness ==
    /\ pc = "idle"
    /\ \E r \in DOMAIN returned :
          \E a \in DOMAIN returned[r] : \E b \in DOMAIN returned[r] :
              /\ returned[r][a] # returned[r][b]
              /\ ~IsUpperCase(returned[r][a])
              /\ ToUpper(returned[r][a]) = returned[r][b]

\* ------------------------------------------------------------------------
\* Ternary quantizations, with and without the prefix UD-
\* ------------------------------------------------------------------------

\* separator, UD-TQ<digits>_<digits> or TQ<digits>_<digits>, .gguf
TQShapes ==
    << Separator \o CapSeq(<<"U", "D", "-">>) \o TQToken \o DotGguf,
       Separator \o TQToken \o DotGguf >>

\* a .gguf filename outside a quant-named directory that ends in a
\* separator, a ternary token and .gguf
IsTQNamed(name) ==
    /\ IsGguf(name)
    /\ dirQuant(name) = <<>>
    /\ ShapeStarts(TQShapes, name) # {}

\* the same, when .gguf occurs only as the final extension and the filename
\* does not end in a separator-led token of the Q, IQ or float family
IsPlainTQNamed(name) ==
    /\ IsTQNamed(name)
    /\ OnlyFinalGguf(name)
    /\ ShapeStarts(Simple(<<QToken, IQToken>> \o FloatTokens), name) = {}

\* the ternary token of the filename, upper-cased, with UD- when a
\* separator stands before it
TQLabel(name) == ToUpper(ShapeToken(TQShapes, name))

\* the label of such a filename is its ternary token; the UD- variant and
\* the plain variant of one token are two entries of the result
TQSupport(IsTQ(_)) ==
    /\ (pc = "dedupe" /\ IsTQ(filename)) => quant = TQLabel(filename)
    /\ pc = "idle" =>
          \A m \in DOMAIN siblings : \A n \in DOMAIN siblings :
              (/\ IsTQ(siblings[m])
               /\ IsTQ(siblings[n])
               /\ TQLabel(siblings[m]) = <<"U", "D", "-">> \o TQLabel(siblings[n]))
              => \A r \in DOMAIN returned :
                    {TQLabel(siblings[m]), TQLabel(siblings[n])} \subseteq Labels(returned[r])

\* C17 (as claimed): for a .gguf filename with no quant-named leading
\* directory that ends in a separator, (UD-)TQ<digits>_<digits> and .gguf,
\* the label is the ternary token upper-cased, with UD- preserved; a UD-
\* variant and its plain variant are two distinct entries.
C17_TernaryLabel_AsClaimed == TQSupport(IsTQNamed)

\* C17 (amended): the same for filenames in which .gguf occurs only as the
\* final extension and the ternary token is not the tail of a separator-led
\* token of the Q or IQ family.
C17_TernaryLabel == TQSupport(IsPlainTQNamed)

\* the listing of a UD- variant and its plain variant has been answered
\* with both labels
C17_Witness ==
    /\ pc = "idle"
    /\ siblings = TQPair
    /\ returned # <<>>
    /\ returned[1] = <<TQLabel(siblings[1]), TQLabel(siblings[2])>>
    /\ TQLabel(siblings[1]) = <<"U", "D", "-">> \o TQLabel(siblings[2])

\* ------------------------------------------------------------------------
\* api.Client.ListModels. The server is fixed when the call starts: whether
\* the request URL parses, whether the transport delivers a response, the
\* status, whether the body can be read to its end, whether it is a JSON
\* array of records, and the records it carries.
\* ------------------------------------------------------------------------
MaxRecords == 2

\* the records the server sends; the field gated is absent, a boolean, a
\* text or something else
ApiModels ==
    { [ID |-> <<"o", "/", "m">>, Gated |-> [kind |-> "bool", b |-> TRUE, s |-> ""]],
      [ID |-> <<"m">>, Gated |-> [kind |-> "string", b |-> FALSE, s |-> "false"]],
      [ID |-> <<"o", "/", "n", "/", "x">>, Gated |-> [kind |-> "string", b |-> FALSE, s |-> "auto"]],
      [ID |-> <<"n">>, Gated |-> [kind |-> "number", b |-> FALSE, s |-> ""]] }

\* the options of the caller: "" and 0 are the zero values
ListModelsOptions ==
    { [Search |-> "", Filter |-> "", Author |-> "", PipelineTag |-> "", LibraryName |-> "",
       Language |-> "", Tag |-> "", Limit |-> 0, Sort |-> "", Direction |-> 0, Token |-> ""],
      [Search |-> "llama", Filter |-> "", Author |-> "", PipelineTag |-> "", LibraryName |-> "gguf",
       Language |-> "", Tag |-> "", Limit |-> 5, Sort |-> "downloads", Direction |-> 0 - 1,
       Token |-> "t"] }

\* the keys of the query parameters the options add
paramKeys(opts) ==
    {k \in {"search", "filter", "author", "pipeline_tag", "library", "language", "tags",
            "limit", "sort", "direction"} :
        \/ k = "search" /\ opts.Search # ""
        \/ k = "filter" /\ opts.Filter # ""
        \/ k = "author" /\ opts.Author # ""
        \/ k = "pipeline_tag" /\ opts.PipelineTag # ""
        \/ k = "library" /\ opts.LibraryName # ""
        \/ k = "language" /\ opts.Language # ""
        \/ k = "tags" /\ opts.Tag # ""
        \/ k = "limit" /\ opts.Limit > 0
        \/ k = "sort" /\ opts.Sort # ""
        \/ k = "direction" /\ opts.Direction # 0}

\* strings.SplitN(am.ID, "/", 2)[0] when the ID holds a "/", "" otherwise
authorOf(id) ==
    IF \E n \in DOMAIN id : id[n] = "/"
    THEN SubSeq(id, 1, Min({n \in DOMAIN id : id[n] = "/"}) - 1)
    ELSE <<>>

\* the type switch over am.Gated
gatedOf(g) ==
    IF g.kind = "bool" THEN g.b
    ELSE IF g.kind = "string" THEN g.s # "" /\ g.s # "false"
    ELSE FALSE

\* the loop that fills result: result[i] is made from apiModels[i]
convert(apiModels) ==
    [n \in DOMAIN apiModels |->
        [ID |-> apiModels[n].ID,
         Author |-> authorOf(apiModels[n].ID),
         Gated |-> gatedOf(apiModels[n].Gated)]]

\* the []models.Model nil
NilModels == [isNil |-> TRUE, models |-> <<>>]

\* the query parameters and the request URL are built
ListBuildQuery ==
    /\ list.pc = "build"
    /\ list' = [list EXCEPT !.pc = "request",
                            !.params = paramKeys(list.opts),
                            !.hasQuery = paramKeys(list.opts) # {},
                            !.steps = Append(@, "build query")]
    /\ UNCHANGED <<extraction, conc, fetch>>

ListNewRequestError ==
    /\ list.pc = "request"
    /\ ~list.urlOk
    /\ list' = [list EXCEPT !.pc = "done", !.err = "failed to create request"]
    /\ UNCHANGED <<extraction, conc, fetch>>

\* the token of the options, else the token of the client, becomes a header
ListNewRequest ==
    /\ list.pc = "request"
    /\ list.urlOk
    /\ list' = [list EXCEPT !.pc = "send",
                            !.authorization =
                                (IF list.opts.Token = "" THEN list.token ELSE list.opts.Token) # ""]
    /\ UNCHANGED <<extraction, conc, fetch>>

ListDoError ==
    /\ list.pc = "send"
    /\ ~list.reachable
    /\ list' = [list EXCEPT !.pc = "done", !.err = "failed to execute request",
                            !.steps = Append(@, "send")]
    /\ UNCHANGED <<extraction, conc, fetch>>

ListDo ==
    /\ list.pc = "send"
    /\ list.reachable
    /\ list' = [list EXCEPT !.pc = "status", !.steps = Append(@, "send")]
    /\ UNCHANGED <<extraction, conc, fetch>>

\* a status other than 200, taken for 200
ListStatusNotOK_Read ==
    /\ list.pc = "status"
    /\ list.status # StatusOK
    /\ list' = [list EXCEPT !.pc = "read", !.steps = Append(@, "check status")]
    /\ UNCHANGED <<extraction, conc, fetch>>

\* a status other than 200: the body is read into the error text
ListStatusNotOK ==
    /\ list.pc = "status"
    /\ list.status # StatusOK
    /\ list' = [list EXCEPT !.pc = "done", !.err = "API request failed with status",
                            !.steps = @ \o <<"check status", "read">>]
    /\ UNCHANGED <<extraction, conc, fetch>>

ListStatusOK ==
    /\ list.pc = "status"
    /\ list.status = StatusOK
    /\ list' = [list EXCEPT !.pc = "read", !.steps = Append(@, "check status")]
    /\ UNCHANGED <<extraction, conc, fetch>>

ListReadAllError ==
    /\ list.pc = "read"
    /\ ~list.readable
    /\ list' = [list EXCEPT !.pc = "done", !.err = "failed to read response body",
                            !.steps = Append(@, "read")]
    /\ UNCHANGED <<extraction, conc, fetch>>

ListReadAll ==
    /\ list.pc = "read"
    /\ list.readable
    /\ list' = [list EXCEPT !.pc = "parse", !.steps = Append(@, "read")]
    /\ UNCHANGED <<extraction, conc, fetch>>

ListUnmarshalError ==
    /\ list.pc = "parse"
    /\ ~list.parsable
    /\ list' = [list EXCEPT !.pc = "done", !.err = "failed to parse response",
                            !.steps = Append(@, "parse")]
    /\ UNCHANGED <<extraction, conc, fetch>>

\* the records are parsed and converted; the result is returned
ListUnmarshal ==
    /\ list.pc = "parse"
    /\ list.parsable
    /\ list' = [list EXCEPT !.pc = "done",
                            !.result = [isNil |-> FALSE, models |-> convert(list.records)],
                            !.steps = Append(@, "parse")]
    /\ UNCHANGED <<extraction, conc, fetch>>

ListNext ==
    \/ ListBuildQuery
    \/ ListNewRequestError
    \/ ListNewRequest
    \/ ListDoError
    \/ ListDo
    \/ ListStatusNotOK
    \/ ListStatusOK
    \/ ListReadAllError
    \/ ListReadAll
    \/ ListUnmarshalError
    \/ ListUnmarshal

ListInit ==
    /\ NoExtraction
    /\ conc = <<>>
    /\ fetch = [pc |-> "idle"]
    /\ list \in [pc : {"build"}, opts : ListModelsOptions, token : {"", "t"},
                 urlOk : BOOLEAN, reachable : BOOLEAN, status : Statuses,
                 readable : BOOLEAN, parsable : BOOLEAN,
                 records : SeqsUpTo(ApiModels, MaxRecords),
                 params : {{}}, hasQuery : {FALSE}, authorization : {FALSE},
                 steps : {<<>>}, result : {NilModels}, err : {NoError}]

ListSpec == ListInit /\ [][ListNext]_vars

\* something on the way to the list of models fails
ListFails ==
    \/ ~list.urlOk
    \/ ~list.reachable
    \/ list.status # StatusOK
    \/ ~list.readable
    \/ ~list.parsable

\* the order of the steps
StepOrder == <<"build query", "send", "check status", "read", "parse">>

\* C18: ListModels returns exactly one of a result and an error: a nil list
\* and an error on every failure (request creation, transport, status other
\* than 200, unreadable body, unparsable body), a list and a nil error
\* otherwise, with one model per received record in the received order; the
\* steps are taken in the order build query, send, check status, read,
\* parse, and a response with another status than 200 is never parsed.
C18_ResultOrError ==
    /\ list.steps = SubSeq(StepOrder, 1, Len(list.steps))
    /\ list.status # StatusOK =>
         /\ \A n \in DOMAIN list.steps : list.steps[n] # "parse"
         /\ list.result = NilModels
    /\ list.pc = "done" =>
         /\ (list.err # NoError) <=> ListFails
         /\ (list.err # NoError) <=> list.result.isNil
         /\ list.err # NoError => list.result = NilModels
         /\ list.err = NoError =>
              /\ Len(list.result.models) = Len(list.records)
              /\ \A n \in DOMAIN list.records :
                    list.result.models[n].ID = list.records[n].ID

\* two different records have been received and returned
C18_Witness ==
    /\ list.pc = "done"
    /\ list.err = NoError
    /\ ~list.result.isNil
    /\ Len(list.result.models) = 2
    /\ list.result.models[1].ID = list.records[1].ID
    /\ list.result.models[1].ID # list.result.models[2].ID

\* ------------------------------------------------------------------------
\* Extraction over the two parts of a listing
\* ------------------------------------------------------------------------

\* the positions of xs that hold a text for the first time
FirstPositions(xs) == {n \in DOMAIN xs : \A m \in 1..(n - 1) : xs[m] # xs[n]}

\* xs without the later occurrences of its entries, in the order of xs
Dedup(xs) ==
    [k \in 1..Cardinality(FirstPositions(xs)) |->
        xs[CHOOSE n \in FirstPositions(xs) :
              Cardinality({m \in FirstPositions(xs) : m <= n}) = k]]

\* the number of filenames before position n that end in .gguf
GgufCount(xs, n) == Cardinality({m \in 1..(n - 1) : EndsInGgufAnyCase(xs[m])})

\* C19: the label of a filename depends on that filename only, so the
\* extraction over a listing is the de-duplication, in order, of the
\* extractions over its two parts, wherever the listing is cut; a filename
\* contributes at most one label, no label is empty, and the result is
\* never longer than the number of .gguf filenames.
C19_Compositional ==
    /\ pc = "dedupe" => quant = quantOf(filename)
    /\ pc = "range" =>
         /\ Len(quants) <= GgufCount(siblings, i)
         /\ \A n \in DOMAIN quants : quants[n] # <<>>
    /\ pc = "idle" =>
         \A r \in DOMAIN returned :
             /\ Len(returned[r]) <= GgufCount(siblings, Len(siblings) + 1)
             /\ \A k \in 0..Len(siblings) :
                   returned[r] =
                       Dedup(ExtractQuantsFromSiblings(SubSeq(siblings, 1, k))
                               \o ExtractQuantsFromSiblings(SubSeq(siblings, k + 1, Len(siblings))))

\* a listing of three filenames whose parts, wherever it is cut, both yield
\* a label, one of them the same in both
C19_Witness ==
    /\ pc = "idle"
    /\ returned # <<>>
    /\ Len(siblings) = 3
    /\ Len(returned[1]) = 2
    /\ \A k \in 1..2 :
          /\ ExtractQuantsFromSiblings(SubSeq(siblings, 1, k)) # <<>>
          /\ ExtractQuantsFromSiblings(SubSeq(siblings, k + 1, 3)) # <<>>
    /\ Labels(ExtractQuantsFromSiblings(SubSeq(siblings, 1, 2)))
          \cap Labels(ExtractQuantsFromSiblings(SubSeq(siblings, 3, 3))) # {}

====
